---- MODULE Spec2Model ----
(***************************************************************************)
(* Model of pilot/utils/describe.py: describe_file and the three provider  *)
(* adapters openai_describe, anthropic_describe and groq_describe.         *)
(*                                                                         *)
(* Python strings are sequences of one-character strings, so that lower(), *)
(* strip(), join() and the f-string of line 120 are computed rather than   *)
(* assumed.  URLs are sequences of path tokens; str.replace of the token   *)
(* "/chat/completions" removes every occurrence of it.                     *)
(***************************************************************************)
EXTENDS Integers, Sequences, FiniteSets, TLC

\* Longest `references` list an adapter answer carries in the model.
MaxRefs == 2

-----------------------------------------------------------------------------
(* String literals of the source.                                          *)

EMPTY_PLACEHOLDER == <<"(", "e", "m", "p", "t", "y", ")">>

UNKNOWN == <<"(", "u", "n", "k", "n", "o", "w", "n", ")">>

RefsOpen == <<" ", "[", "R", "e", "f", "e", "r", "e", "n", "c", "e", "s", ":", " ">>

RefsClose == <<"]">>

RefsSep == <<",", " ">>

\* The list of line 90.
TruthyValues ==
    { <<"t", "r", "u", "e">>, <<"1">>, <<"y", "e", "s">>, <<"o", "n">> }

\* Line 45: the default of OPENAI_ENDPOINT, as path tokens.
OPENAI_DEFAULT_ENDPOINT == <<"https://api.openai.com/v1", "/chat/completions">>

CHAT_COMPLETIONS == "/chat/completions"

-----------------------------------------------------------------------------
(* Python built-ins used by the source.                                    *)

\* The characters str.strip() removes, among those of the model's alphabet.
Whitespace == {" ", "\t", "\n"}

\* str.lower() on one character of the model's alphabet.
LowerChar(c) ==
    CASE c = "T" -> "t"
      [] c = "R" -> "r"
      [] c = "U" -> "u"
      [] c = "E" -> "e"
      [] c = "Y" -> "y"
      [] c = "S" -> "s"
      [] c = "O" -> "o"
      [] c = "N" -> "n"
      [] OTHER -> c

\* str.lower()
Lower(s) == [i \in 1..Len(s) |-> LowerChar(s[i])]

RECURSIVE LStrip(_)
LStrip(s) ==
    IF s # <<>> /\ Head(s) \in Whitespace THEN LStrip(Tail(s)) ELSE s

RECURSIVE RStrip(_)
RStrip(s) ==
    IF s # <<>> /\ s[Len(s)] \in Whitespace
    THEN RStrip(SubSeq(s, 1, Len(s) - 1))
    ELSE s

\* str.strip()
Strip(s) == RStrip(LStrip(s))

\* sep.join(parts)
RECURSIVE Join(_, _)
Join(sep, parts) ==
    IF parts = <<>> THEN <<>>
    ELSE IF Len(parts) = 1 THEN parts[1]
    ELSE parts[1] \o sep \o Join(sep, Tail(parts))

\* str.replace(tok, "") on a URL held as path tokens.
RemoveToken(url, tok) == SelectSeq(url, LAMBDA t : t # tok)

-----------------------------------------------------------------------------
(* The process environment, os.environ: each variable is unset or holds a  *)
(* string (possibly the empty one).                                        *)

Unset == [set |-> FALSE, val |-> <<>>]

Val(v) == [set |-> TRUE, val |-> v]

\* os.getenv(name): None is the Unset record.
Getenv(e, name) == e[name]

\* os.getenv(name, default)
GetenvDefault(e, name, default) == IF e[name].set THEN e[name].val ELSE default

\* Python truthiness of an Optional[str]: None and "" are falsy.
TruthyOpt(o) == o.set /\ o.val # <<>>

-----------------------------------------------------------------------------
(* JSON values as json.loads returns them.  A member value is a record     *)
(* [t, s, l]: t its Python type, s its text (str, or the digits of an      *)
(* int), l its items (list) or its keys (dict).  "absent" is a key the     *)
(* object does not have.                                                   *)

Absent == [t |-> "absent", s |-> <<>>, l |-> <<>>]

JNull == [t |-> "null", s |-> <<>>, l |-> <<>>]

JStr(s) == [t |-> "str", s |-> s, l |-> <<>>]

JNum(digits) == [t |-> "num", s |-> digits, l |-> <<>>]

JList(items) == [t |-> "list", s |-> <<>>, l |-> items]

JDict(keys) == [t |-> "dict", s |-> <<>>, l |-> keys]

\* A list item: a string or an int.
ItemStr(s) == [t |-> "str", s |-> s]

ItemNum(digits) == [t |-> "num", s |-> digits]

\* The parsed document: an object with its two members, or a non-object.
JObject(summary, references) ==
    [t |-> "obj", summary |-> summary, references |-> references]

JNonObject(type) == [t |-> type, summary |-> Absent, references |-> Absent]

\* desc before line 112 or 117 binds it.
Unbound == JNonObject("unbound")

\* Python truthiness of desc.get("references") (line 119): None, [], "", 0
\* and {} are falsy.
Truthy(v) ==
    CASE v.t = "absent" -> FALSE
      [] v.t = "null" -> FALSE
      [] v.t = "str" -> v.s # <<>>
      [] v.t = "num" -> v.s # <<"0">>
      [] v.t = "list" -> v.l # <<>>
      [] v.t = "dict" -> v.l # <<>>

\* What ", ".join(v) iterates over: the items of a list, the characters of a
\* str, the keys of a dict.
IterParts(v) ==
    CASE v.t = "list" -> [i \in 1..Len(v.l) |-> v.l[i].s]
      [] v.t = "str" -> [i \in 1..Len(v.s) |-> <<v.s[i]>>]
      [] v.t = "dict" -> [i \in 1..Len(v.l) |-> v.l[i].s]
      [] OTHER -> <<>>

\* ", ".join(v) raises TypeError: v is not iterable, or an item is not a str.
JoinRaises(v) ==
    \/ v.t = "num"
    \/ v.t = "list" /\ \E i \in 1..Len(v.l) : v.l[i].t # "str"

\* The f-string conversion of line 120, str(v).
PyStr(v) ==
    CASE v.t = "str" -> v.s
      [] v.t = "num" -> v.s
      [] v.t = "null" -> <<"N", "o", "n", "e">>

\* The default result of line 117.
DefaultDesc == JObject(JStr(UNKNOWN), JList(<<>>))

\* Mutant: the clause is appended whenever the key is a list.
Refs_WheneverList(d) ==
    IF d.references.t = "list"
    THEN RefsOpen \o Join(RefsSep, IterParts(d.references)) \o RefsClose
    ELSE <<>>

\* Line 119.
Refs(d) ==
    IF Truthy(d.references)
    THEN RefsOpen \o Join(RefsSep, IterParts(d.references)) \o RefsClose
    ELSE <<>>

\* Line 120: the string describe_file returns.
Render(d) == PyStr(d.summary) \o Refs(d)

\* The exception lines 119-120 raise on desc, "" when they raise none:
\* desc.get on a non-dict, join on a non-iterable or on non-str items,
\* desc['summary'] on a missing key; in this order of evaluation.
RenderException(d) ==
    IF d.t # "obj" THEN "AttributeError"
    ELSE IF Truthy(d.references) /\ JoinRaises(d.references) THEN "TypeError"
    ELSE IF d.summary.t = "absent" THEN "KeyError"
    ELSE ""

-----------------------------------------------------------------------------
(* Provider selection, lines 97-108.                                       *)

describe_function_map ==
    << <<"OPENAI_API_KEY", "openai_describe">>,
       <<"ANTHROPIC_API_KEY", "anthropic_describe">>,
       <<"GROQ_API_KEY", "groq_describe">> >>

\* The loop of lines 103-106 over the rest of the map: the function of the
\* first entry whose variable is truthy, "None" when there is none.
RECURSIVE FirstTruthy(_, _)
FirstTruthy(e, map) ==
    IF map = <<>> THEN "None"
    ELSE IF TruthyOpt(Getenv(e, map[1][1])) THEN map[1][2]
    ELSE FirstTruthy(e, Tail(map))

\* Reverse of a sequence.
Reverse(q) == [i \in 1..Len(q) |-> q[Len(q) + 1 - i]]

\* Mutant: no provider configured falls back to the last adapter of the map.
SelectDescribeFunction_Fallback(e) ==
    IF FirstTruthy(e, describe_function_map) = "None"
    THEN "groq_describe"
    ELSE FirstTruthy(e, describe_function_map)

\* Mutant: the loop without its break, the last truthy entry wins.
SelectDescribeFunction_NoBreak(e) == FirstTruthy(e, Reverse(describe_function_map))

SelectDescribeFunction(e) == FirstTruthy(e, describe_function_map)

\* Mutant: the gate tests the truthiness of the raw value.
FlagEnabled_AnyValue(e) == GetenvDefault(e, "FILTER_RELEVANT_FILES", <<>>) # <<>>

\* Line 90: the feature gate.
FlagEnabled(e) ==
    Strip(Lower(GetenvDefault(e, "FILTER_RELEVANT_FILES", <<>>))) \in TruthyValues

\* Mutant: the gate without the strip() test.
IsBlank_EmptyOnly(c) == c = <<>>

\* Line 93: not content or not content.strip()
IsBlank(c) == c = <<>> \/ Strip(c) = <<>>

-----------------------------------------------------------------------------
(* The adapters, lines 42-87: the base URL each hands to its SDK client    *)
(* (Unset is None, the SDK's own default) and the variables each reads.    *)

\* Line 45.
openai_base_url(e) ==
    Val(RemoveToken(GetenvDefault(e, "OPENAI_ENDPOINT", OPENAI_DEFAULT_ENDPOINT),
                    CHAT_COMPLETIONS))

\* Mutant: the Anthropic adapter reads the OpenAI endpoint variable.
anthropic_base_url_WrongVar(e) ==
    IF TruthyOpt(Getenv(e, "OPENAI_ENDPOINT"))
    THEN Getenv(e, "OPENAI_ENDPOINT")
    ELSE Unset

\* Line 62: os.getenv('ANTHROPIC_ENDPOINT') or None
anthropic_base_url(e) ==
    IF TruthyOpt(Getenv(e, "ANTHROPIC_ENDPOINT"))
    THEN Getenv(e, "ANTHROPIC_ENDPOINT")
    ELSE Unset

\* Line 78: Groq(api_key=...) is given no base URL.
groq_base_url(e) == Unset

AdapterBaseUrl(fn, e) ==
    CASE fn = "openai_describe" -> openai_base_url(e)
      [] fn = "anthropic_describe" -> anthropic_base_url(e)
      [] fn = "groq_describe" -> groq_base_url(e)

\* The environment variables the adapter's own code reads.
AdapterReads(fn) ==
    CASE fn = "openai_describe" -> {"OPENAI_ENDPOINT"}
      [] fn = "anthropic_describe" -> {"ANTHROPIC_ENDPOINT"}
      [] fn = "groq_describe" -> {"GROQ_API_KEY"}

-----------------------------------------------------------------------------
(* Inputs: the environment, the arguments, and what the adapter does.      *)

FlagValues ==
    { Unset, Val(<<>>),
      Val(<<"t", "r", "u", "e">>), Val(<<"1">>), Val(<<"y", "e", "s">>),
      Val(<<"o", "n">>), Val(<<"O", "n">>), Val(<<" ", "Y", "E", "S", "\n">>),
      Val(<<"\t", "T", "r", "U", "e", " ">>),
      Val(<<"0">>), Val(<<"n", "o">>), Val(<<"o", " ", "n">>),
      Val(<<"t", "r", "u">>), Val(<<" ">>) }

KeyValues == { Unset, Val(<<>>), Val(<<"s", "k", "-", "1">>) }

OpenAIEndpoints ==
    { Unset, Val(<<>>),
      Val(<<"http://proxy/v1", "/chat/completions">>),
      Val(<<"http://proxy/v1">>),
      Val(<<"http://proxy", "/chat/completions", "/v2", "/chat/completions">>) }

AnthropicEndpoints == { Unset, Val(<<>>), Val(<<"http://proxy/anthropic">>) }

GroqEndpoints == { Unset, Val(<<"http://proxy/groq">>) }

Contents == { <<>>, <<" ", "\n", "\t">>, <<"x">>, <<" ", "x", "\n">> }

Paths == { "main.py", "lib/util.js" }

RefNames == { <<"a", ".", "p", "y">>, <<"b", ".", "t", "s">> }

\* The lists of at most n reference names.
RefLists(n) == UNION { [1..k -> RefNames] : k \in 0..n }

StrItems(names) == [i \in 1..Len(names) |-> ItemStr(names[i])]

SummaryValues ==
    { Absent, JNull, JNum(<<"7">>), JStr(<<"S">>), JStr(UNKNOWN) }

ReferencesValues ==
    { Absent, JNull, JNum(<<"0">>), JNum(<<"3">>), JStr(<<>>), JStr(<<"a", "b">>),
      JList(<<ItemNum(<<"1">>)>>),
      JList(<<ItemStr(<<"a", ".", "p", "y">>), ItemNum(<<"1">>)>>),
      JDict(<<>>), JDict(<<ItemStr(<<"k">>)>>) }
    \cup { JList(StrItems(names)) : names \in RefLists(MaxRefs) }

\* Every document json.loads can return: an object, or a list, a str, an
\* int or None.
JsonValues ==
    { JObject(sm, rf) : sm \in SummaryValues, rf \in ReferencesValues }
    \cup { JNonObject(ty) : ty \in {"list", "str", "num", "null"} }

NoErr == [type |-> "", msg |-> <<>>]

Err(type, msg) == [type |-> type, msg |-> msg]

\* What an adapter can raise: a transport failure, an authentication failure.
AdapterErrors ==
    { Err("APITimeoutError", <<"t", "i", "m", "e", "o", "u", "t">>),
      Err("AuthenticationError",
          <<"4", "0", "1", " ", "U", "n", "a", "u", "t", "h", "o", "r", "i", "z", "e", "d">>) }

\* json.loads on text that is no JSON document.
JSONDecodeError ==
    Err("JSONDecodeError",
        <<"E", "x", "p", "e", "c", "t", "i", "n", "g", " ", "v", "a", "l", "u", "e">>)

\* json.loads(None): the SDK returned no content.
NoneTypeError ==
    Err("TypeError",
        <<"n", "o", "t", " ", "N", "o", "n", "e", "T", "y", "p", "e">>)

NoOutcome == [kind |-> "pending", err |-> NoErr, value |-> Unbound]

\* Every way a call of an adapter ends: it raises, it returns None, it
\* returns text that is no JSON, it returns the text of a JSON document.
AdapterOutcomes ==
    { [kind |-> "raise", err |-> e, value |-> Unbound] : e \in AdapterErrors }
    \cup { [kind |-> "none", err |-> NoErr, value |-> Unbound],
           [kind |-> "nonjson", err |-> NoErr, value |-> Unbound] }
    \cup { [kind |-> "json", err |-> NoErr, value |-> v] : v \in JsonValues }

-----------------------------------------------------------------------------
VARIABLES
    env,                \* os.environ, read-only during the call
    fpath, content,     \* the arguments of describe_file
    pc,                 \* where the call of describe_file stands
    describe_function,  \* line 102
    raw,                \* how the adapter call ended
    desc,               \* lines 112, 117
    err,                \* the exception the except clause caught
    calls,              \* the adapter calls made, in order
    out,                \* the lines printed by lines 114 and 116
    status,             \* "running", "returned" or "raised"
    result,             \* the string returned
    exc                 \* the exception that escaped describe_file

vars ==
    <<env, fpath, content, pc, describe_function, raw, desc, err, calls, out,
      status, result, exc>>

inputs == <<env, fpath, content>>

Environments(openai, anthropic, groq) ==
    [ FILTER_RELEVANT_FILES : FlagValues,
      OPENAI_API_KEY : KeyValues,
      ANTHROPIC_API_KEY : KeyValues,
      GROQ_API_KEY : KeyValues,
      OPENAI_ENDPOINT : openai,
      ANTHROPIC_ENDPOINT : anthropic,
      GROQ_ENDPOINT : groq ]

Entry ==
    /\ pc = "flag"
    /\ describe_function = "None"
    /\ raw = NoOutcome
    /\ desc = Unbound
    /\ err = NoErr
    /\ calls = <<>>
    /\ out = <<>>
    /\ status = "running"
    /\ result = <<>>
    /\ exc = ""

\* A call of describe_file with no endpoint override in the environment.
Init ==
    /\ env \in Environments({Unset}, {Unset}, {Unset})
    /\ fpath \in Paths
    /\ content \in Contents
    /\ Entry

\* A call of describe_file under every setting of the endpoint variables.
InitEndpoints ==
    /\ env \in Environments(OpenAIEndpoints, AnthropicEndpoints, GroqEndpoints)
    /\ env.FILTER_RELEVANT_FILES \in {Val(<<"o", "n">>), Val(<<"n", "o">>)}
    /\ fpath = "main.py"
    /\ content \in {<<"x">>, <<>>}
    /\ Entry

Return(s) ==
    /\ pc' = "done"
    /\ status' = "returned"
    /\ result' = s
    /\ exc' = ""

Raise(type) ==
    /\ pc' = "done"
    /\ status' = "raised"
    /\ result' = <<>>
    /\ exc' = type

Goto(label) ==
    /\ pc' = label
    /\ UNCHANGED <<status, result, exc>>

\* Lines 90-91.
CheckFlag ==
    /\ pc = "flag"
    /\ IF FlagEnabled(env) THEN Goto("content") ELSE Return(<<>>)
    /\ UNCHANGED <<inputs, describe_function, raw, desc, err, calls, out>>

\* Lines 93-94.
CheckContent ==
    /\ pc = "content"
    /\ IF IsBlank(content) THEN Return(EMPTY_PLACEHOLDER) ELSE Goto("select")
    /\ UNCHANGED <<inputs, describe_function, raw, desc, err, calls, out>>

\* Lines 97-108.
SelectProvider ==
    /\ pc = "select"
    /\ describe_function' = SelectDescribeFunction(env)
    /\ IF describe_function' = "None" THEN Return(UNKNOWN) ELSE Goto("call")
    /\ UNCHANGED <<inputs, raw, desc, err, calls, out>>

\* Line 112, describe_function(fpath, content): the adapter runs and ends in
\* one of its outcomes.  An exception leaves the try block for line 115.
CallAdapter ==
    /\ pc = "call"
    /\ \E o \in AdapterOutcomes :
        /\ raw' = o
        /\ calls' = Append(calls,
                [fn |-> describe_function, fpath |-> fpath, content |-> content,
                 base_url |-> AdapterBaseUrl(describe_function, env),
                 reads |-> AdapterReads(describe_function)])
        /\ IF o.kind = "raise"
           THEN err' = o.err /\ Goto("except")
           ELSE err' = err /\ Goto("parse")
    /\ UNCHANGED <<inputs, describe_function, desc, out>>

\* Lines 112-114: json.loads of what the adapter returned, then the timing
\* line.  A failure of json.loads leaves the try block for line 115.
ParseJson ==
    /\ pc = "parse"
    /\ CASE raw.kind = "json" ->
              /\ desc' = raw.value
              /\ out' = Append(out, [line |-> "Generated summary", fpath |-> fpath,
                                     msg |-> <<>>])
              /\ err' = err
              /\ Goto("render")
         [] raw.kind = "nonjson" ->
              /\ err' = JSONDecodeError
              /\ Goto("except")
              /\ UNCHANGED <<desc, out>>
         [] raw.kind = "none" ->
              /\ err' = NoneTypeError
              /\ Goto("except")
              /\ UNCHANGED <<desc, out>>
    /\ UNCHANGED <<inputs, describe_function, raw, calls>>

\* Mutant: the except clause reports the error as the summary.
ExceptDesc_Leak(e) == JObject(JStr(e.msg), JList(<<>>))

\* The default result the except clause binds, line 117; e is the exception
\* caught, which only the printed line uses.
ExceptDesc(e) == DefaultDesc

\* Mutant: the except clause retries the adapter.
HandleException_Retry ==
    /\ pc = "except"
    /\ out' = Append(out, [line |-> "Error describing", fpath |-> fpath,
                           msg |-> err.msg])
    /\ desc' = ExceptDesc(err)
    /\ Goto("call")
    /\ UNCHANGED <<inputs, describe_function, raw, err, calls>>

\* Lines 115-117.
HandleException ==
    /\ pc = "except"
    /\ out' = Append(out, [line |-> "Error describing", fpath |-> fpath,
                           msg |-> err.msg])
    /\ desc' = ExceptDesc(err)
    /\ Goto("render")
    /\ UNCHANGED <<inputs, describe_function, raw, err, calls>>

\* Lines 119-120, outside the try block: an exception here escapes.
RenderResult ==
    /\ pc = "render"
    /\ IF RenderException(desc) # ""
       THEN Raise(RenderException(desc))
       ELSE Return(Render(desc))
    /\ UNCHANGED <<inputs, describe_function, raw, desc, err, calls, out>>

Next ==
    \/ CheckFlag
    \/ CheckContent
    \/ SelectProvider
    \/ CallAdapter
    \/ ParseJson
    \/ HandleException
    \/ RenderResult

Spec == Init /\ [][Next]_vars

SpecEndpoints == InitEndpoints /\ [][Next]_vars

-----------------------------------------------------------------------------
(* The claims.                                                             *)

\* The flag of the environment as line 90 reads it, "" when unset.
FlagText ==
    IF env.FILTER_RELEVANT_FILES.set THEN env.FILTER_RELEVANT_FILES.val ELSE <<>>

FlagIsTruthy ==
    Strip(Lower(FlagText)) \in
        { <<"t", "r", "u", "e">>, <<"1">>, <<"y", "e", "s">>, <<"o", "n">> }

ContentIsBlank == \A i \in 1..Len(content) : content[i] \in {" ", "\t", "\n"}

CredentialVars == <<"OPENAI_API_KEY", "ANTHROPIC_API_KEY", "GROQ_API_KEY">>

EndpointVars == {"OPENAI_ENDPOINT", "ANTHROPIC_ENDPOINT", "GROQ_ENDPOINT"}

AdapterOf(var) ==
    CASE var = "OPENAI_API_KEY" -> "openai_describe"
      [] var = "ANTHROPIC_API_KEY" -> "anthropic_describe"
      [] var = "GROQ_API_KEY" -> "groq_describe"

\* The adapter call is behind: describe_file stands after line 112's call.
AfterCall == pc \in {"parse", "except", "render"} \/ (pc = "done" /\ raw # NoOutcome)

\* describe_file is past provider selection.
PastSelection == pc \in {"call", "parse", "except", "render", "done"}

\* s holds sub as a contiguous part.
Contains(s, sub) ==
    \E i \in 1..(Len(s) - Len(sub) + 1) : SubSeq(s, i, i + Len(sub) - 1) = sub

\* C1: describe_file ends by returning a string, whatever the adapter did; no
\* exception reaches the caller.
C1_NeverRaises == pc = "done" => status = "returned"

\* C2: when the adapter returns a JSON object without `summary`,
\* describe_file returns exactly "(unknown)".
C2_MissingSummaryIsUnknown ==
    (pc = "done" /\ raw.kind = "json" /\ raw.value.t = "obj"
        /\ raw.value.summary.t = "absent")
    => (status = "returned" /\ result = UNKNOWN)

\* C3: when the flag, lowercased and stripped, is none of true, 1, yes, on
\* (unset included), no adapter is ever called and describe_file returns "".
C3_DisabledReturnsEmpty ==
    ~FlagIsTruthy =>
        /\ calls = <<>>
        /\ pc \in {"flag", "done"}
        /\ pc = "done" => (status = "returned" /\ result = <<>>)

C3_Witness ==
    /\ pc = "done"
    /\ FlagText = <<"o", " ", "n">>
    /\ content = <<"x">>
    /\ env.OPENAI_API_KEY.val # <<>>
    /\ status = "returned"
    /\ result = <<>>
    /\ calls = <<>>

\* C4: when the flag is truthy and the content is empty or all whitespace, no
\* adapter is ever called and describe_file returns "(empty)", whatever the
\* credentials.
C4_BlankReturnsEmptyPlaceholder ==
    (FlagIsTruthy /\ ContentIsBlank) =>
        /\ calls = <<>>
        /\ pc \in {"flag", "content", "done"}
        /\ pc = "done" => (status = "returned" /\ result = EMPTY_PLACEHOLDER)

C4_Witness ==
    /\ pc = "done"
    /\ FlagText = <<"O", "n">>
    /\ content = <<" ", "\n", "\t">>
    /\ env.ANTHROPIC_API_KEY.val # <<>>
    /\ status = "returned"
    /\ result = <<"(", "e", "m", "p", "t", "y", ")">>
    /\ calls = <<>>

\* C5: when the flag is truthy, the content is not blank and none of the
\* three credential variables is set, no adapter is ever called and
\* describe_file returns "(unknown)".
C5_NoCredentialReturnsUnknown ==
    (FlagIsTruthy /\ ~ContentIsBlank
        /\ \A i \in 1..3 : ~env[CredentialVars[i]].set)
    =>  /\ calls = <<>>
        /\ pc \in {"flag", "content", "select", "done"}
        /\ pc = "done" => (status = "returned" /\ result = UNKNOWN)

C5_Witness ==
    /\ pc = "done"
    /\ FlagIsTruthy
    /\ content = <<" ", "x", "\n">>
    /\ \A i \in 1..3 : ~env[CredentialVars[i]].set
    /\ status = "returned"
    /\ result = <<"(", "u", "n", "k", "n", "o", "w", "n", ")">>

\* The first credential variable, in the fixed order, that satisfies P; 0
\* when none does.
FirstCredential(P(_)) ==
    IF \E i \in 1..3 : P(env[CredentialVars[i]])
    THEN CHOOSE i \in 1..3 :
            /\ P(env[CredentialVars[i]])
            /\ \A j \in 1..(i - 1) : ~P(env[CredentialVars[j]])
    ELSE 0

IsSet(v) == v.set

IsSetNonEmpty(v) == v.set /\ Len(v.val) > 0

\* Once past line 108 with a provider, exactly the adapter of credential
\* number k is called, once the call is made, and no other adapter is.
OnlyAdapterCalled(k) ==
    /\ \A i \in 1..Len(calls) : calls[i].fn = AdapterOf(CredentialVars[k])
    /\ AfterCall => Len(calls) = 1

\* C6, as stated: with the flag truthy, the content not blank and at least
\* one credential variable set, the adapter invoked is that of the first set
\* variable in the order OpenAI, Anthropic, Groq.
C6_FirstSetCredentialWins ==
    (FlagIsTruthy /\ ~ContentIsBlank /\ FirstCredential(IsSet) # 0 /\ pc = "done")
    => (AfterCall /\ OnlyAdapterCalled(FirstCredential(IsSet)))

\* C6, amended: with the flag truthy, the content not blank and at least one
\* credential variable set to a non-empty value, the adapter invoked is that
\* of the first variable with a non-empty value in the order OpenAI,
\* Anthropic, Groq, and no other adapter is invoked.
C6_FirstNonEmptyCredentialWins ==
    (FlagIsTruthy /\ ~ContentIsBlank /\ FirstCredential(IsSetNonEmpty) # 0)
    =>  /\ OnlyAdapterCalled(FirstCredential(IsSetNonEmpty))
        /\ PastSelection =>
              describe_function = AdapterOf(CredentialVars[FirstCredential(IsSetNonEmpty)])
        /\ pc = "done" => AfterCall

C6_Witness ==
    /\ pc = "done"
    /\ IsSetNonEmpty(env.OPENAI_API_KEY)
    /\ IsSetNonEmpty(env.ANTHROPIC_API_KEY)
    /\ Len(calls) = 1
    /\ calls[1].fn = "openai_describe"

\* The elements of r joined with ", ", built from the left.
RECURSIVE JoinedFromLeft(_, _)
JoinedFromLeft(r, n) ==
    IF n = 0 THEN <<>>
    ELSE IF n = 1 THEN r[1]
    ELSE JoinedFromLeft(r, n - 1) \o <<",", " ">> \o r[n]

\* The adapter returned a JSON object whose summary is a string and whose
\* references are absent or a list of strings.
WellFormedAnswer ==
    /\ raw.kind = "json"
    /\ raw.value.t = "obj"
    /\ raw.value.summary.t = "str"
    /\ \/ raw.value.references.t = "absent"
       \/ /\ raw.value.references.t = "list"
          /\ \A i \in 1..Len(raw.value.references.l) :
                raw.value.references.l[i].t = "str"

AnswerRefs == [i \in 1..Len(raw.value.references.l) |-> raw.value.references.l[i].s]

\* C7: on a JSON object with summary S and references R, describe_file
\* returns S when R is empty or absent and S, " [References: ", the elements
\* of R joined with ", ", and "]" otherwise; the clause is there exactly when
\* R is not empty.
C7_RendersSummaryAndReferences ==
    (pc = "done" /\ WellFormedAnswer) =>
        /\ status = "returned"
        /\ result =
              raw.value.summary.s \o
              (IF Len(AnswerRefs) = 0 THEN <<>>
               ELSE <<" ", "[", "R", "e", "f", "e", "r", "e", "n", "c", "e", "s", ":", " ">>
                    \o JoinedFromLeft(AnswerRefs, Len(AnswerRefs)) \o <<"]">>)
        /\ (result = raw.value.summary.s) <=> (Len(AnswerRefs) = 0)

C7_Witness ==
    /\ pc = "done"
    /\ WellFormedAnswer
    /\ Len(AnswerRefs) = 2
    /\ result = <<"S", " ", "[", "R", "e", "f", "e", "r", "e", "n", "c", "e", "s", ":",
                  " ", "a", ".", "p", "y", ",", " ", "b", ".", "t", "s", "]">>

\* C8: when the adapter raises, or returns text that is no JSON,
\* describe_file returns exactly "(unknown)", nothing escapes, and the string
\* returned holds none of the error's text.
C8_FailureReturnsUnknown ==
    (pc = "done" /\ raw.kind \in {"raise", "nonjson"}) =>
        /\ status = "returned"
        /\ exc = ""
        /\ result = UNKNOWN
        /\ err.msg # <<>>
        /\ ~Contains(result, err.msg)

C8_Witness ==
    /\ pc = "done"
    /\ raw.kind = "raise"
    /\ err.type = "APITimeoutError"
    /\ status = "returned"
    /\ result = UNKNOWN
    /\ Len(out) = 1
    /\ out[1].msg = <<"t", "i", "m", "e", "o", "u", "t">>

\* C9: a call of describe_file makes at most one adapter call; after a
\* failed one it goes to the default result and returns, calling no adapter
\* again.
C9_AtMostOneAdapterCall ==
    [][ /\ Len(calls') <= 1
        /\ pc = "except" => (calls' = calls /\ pc' = "render" /\ desc' = DefaultDesc)
        /\ (pc = "render" /\ err # NoErr) => (calls' = calls /\ pc' = "done")
      ]_vars

C9_Witness ==
    /\ pc = "done"
    /\ err # NoErr
    /\ raw.kind = "nonjson"
    /\ IsSetNonEmpty(env.OPENAI_API_KEY)
    /\ IsSetNonEmpty(env.GROQ_API_KEY)
    /\ Len(calls) = 1
    /\ calls[1].fn = "openai_describe"

OwnEndpointVar(fn) ==
    CASE fn = "openai_describe" -> "OPENAI_ENDPOINT"
      [] fn = "anthropic_describe" -> "ANTHROPIC_ENDPOINT"
      [] fn = "groq_describe" -> "GROQ_ENDPOINT"

\* url without its "/chat/completions" tokens, built from the right.
RECURSIVE WithoutChatCompletions(_)
WithoutChatCompletions(url) ==
    IF Len(url) = 0 THEN <<>>
    ELSE IF url[Len(url)] = "/chat/completions"
         THEN WithoutChatCompletions(SubSeq(url, 1, Len(url) - 1))
         ELSE Append(WithoutChatCompletions(SubSeq(url, 1, Len(url) - 1)), url[Len(url)])

\* The base URL a client gets when its adapter honours the override ov: the
\* override (for OpenAI less "/chat/completions", which the SDK appends).
Overridden(fn, ov) ==
    IF fn = "openai_describe" THEN Val(WithoutChatCompletions(ov)) ELSE Val(ov)

\* The base URL of the vendor's public endpoint: for OpenAI the default of
\* line 45, for the other two the SDK's own (None).
VendorDefault(fn) ==
    IF fn = "openai_describe" THEN Val(<<"https://api.openai.com/v1">>) ELSE Unset

\* C10, as stated: each of the three adapters reads its own endpoint
\* variable, sends its request to the override when that variable is set and
\* to the vendor's default otherwise, and reads no other provider's endpoint
\* variable.
C10_EachAdapterHonoursItsEndpoint ==
    \A i \in 1..Len(calls) :
        LET c == calls[i]
            own == OwnEndpointVar(c.fn)
        IN  /\ own \in c.reads
            /\ c.reads \cap EndpointVars \subseteq {own}
            /\ c.base_url = IF env[own].set
                            THEN Overridden(c.fn, env[own].val)
                            ELSE VendorDefault(c.fn)

\* C10, amended: openai_describe reads OPENAI_ENDPOINT and builds its client
\* on that value (the public default when unset) less every
\* "/chat/completions"; anthropic_describe reads ANTHROPIC_ENDPOINT and
\* builds its client on it when it is set and not empty, on the SDK's default
\* otherwise; groq_describe reads no endpoint variable and always builds its
\* client on the SDK's default; no adapter reads another provider's endpoint
\* variable.
C10_OpenAIAndAnthropicHonourTheirEndpoint ==
    \A i \in 1..Len(calls) :
        LET c == calls[i]
            own == OwnEndpointVar(c.fn)
        IN  /\ c.reads \cap EndpointVars \subseteq {own}
            /\ c.fn = "openai_describe" =>
                  /\ own \in c.reads
                  /\ c.base_url = IF env[own].set
                                  THEN Overridden(c.fn, env[own].val)
                                  ELSE VendorDefault(c.fn)
            /\ c.fn = "anthropic_describe" =>
                  /\ own \in c.reads
                  /\ c.base_url = IF env[own].set /\ Len(env[own].val) > 0
                                  THEN Overridden(c.fn, env[own].val)
                                  ELSE VendorDefault(c.fn)
            /\ c.fn = "groq_describe" =>
                  /\ c.reads \cap EndpointVars = {}
                  /\ c.base_url = VendorDefault(c.fn)

C10_Witness ==
    /\ pc = "done"
    /\ Len(calls) = 1
    /\ calls[1].fn = "anthropic_describe"
    /\ env.OPENAI_ENDPOINT = Val(<<"http://proxy/v1", "/chat/completions">>)
    /\ env.ANTHROPIC_ENDPOINT = Val(<<"http://proxy/anthropic">>)
    /\ calls[1].base_url = Val(<<"http://proxy/anthropic">>)

====
